---- MODULE Spec2Model ----
(***************************************************************************)
(* LEB128 (Little Endian Base 128) codec of the leb128 crate:              *)
(*   src/src/lib.rs    the bit-layout constants and the low-bits helpers    *)
(*   src/src/write.rs  write_signed / write_unsigned over a bytes::BufMut   *)
(*   src/src/read.rs   read_signed / read_unsigned over io::Read ("std")    *)
(*                     and over bytes::Buf ("use-bytes")                    *)
(*                                                                         *)
(* A 64-bit integer (u64 or i64, two's complement) is modelled as the set   *)
(* of the positions of its one-bits, a subset of 0..63, so that shifts,     *)
(* masks and truncation are exactly the machine's.  A byte is a number in   *)
(* 0..255.                                                                  *)
(***************************************************************************)
EXTENDS Integers, Sequences, FiniteSets, TLC

(***************************************************************************)
(* Program constants.                                                      *)
(***************************************************************************)
\* lib.rs:50  pub const CONTINUATION_BIT: u8 = 1 << 7;
CONTINUATION_BIT == 128
\* lib.rs:52  pub const SIGN_BIT: u8 = 1 << 6;
SIGN_BIT == 64
\* read.rs:65  let size = 64;  (the width of u64 and i64)
size == 64
\* lib.rs:63  std::u8::MAX
U8_MAX == 255
\* lib.rs:238  let mut buf = [0u8; 1024];  (a sink that is never full here)
BufLen == 1024

(***************************************************************************)
(* Bounds of the model.                                                    *)
(***************************************************************************)
\* values written one after another into one sink (Spec)
MaxStream == 2
\* width, in bits, of the varied window below a value's top bit (SpecWide)
MaxWin == 2
\* small sink capacities 0..MaxCap, next to the roomy BufLen
MaxCap == 1
\* most continuation bytes at the head of a hand-made source (SpecDecode)
MaxRun == 11

(***************************************************************************)
(* Bytes as bit sets, and the u8 operators the code uses.                  *)
(***************************************************************************)
Bytes == 0..U8_MAX

BitsOfByte(b) == {i \in 0..7 : (b \div (2^i)) % 2 = 1}

ByteOfBits(S) ==
    (IF 0 \in S THEN 1 ELSE 0) + (IF 1 \in S THEN 2 ELSE 0)
  + (IF 2 \in S THEN 4 ELSE 0) + (IF 3 \in S THEN 8 ELSE 0)
  + (IF 4 \in S THEN 16 ELSE 0) + (IF 5 \in S THEN 32 ELSE 0)
  + (IF 6 \in S THEN 64 ELSE 0) + (IF 7 \in S THEN 128 ELSE 0)

\* a & b, a | b, !a on u8
And8(a, b) == ByteOfBits(BitsOfByte(a) \cap BitsOfByte(b))
Or8(a, b) == ByteOfBits(BitsOfByte(a) \cup BitsOfByte(b))
Not8(a) == ByteOfBits((0..7) \ BitsOfByte(a))

(***************************************************************************)
(* 64-bit words as sets of bit positions, and the operators the code uses. *)
(***************************************************************************)
BitPos == 0..(size - 1)
Zero == {}
\* -1 as i64, !0 as i64, u64::MAX
AllOnes == BitPos
IsNegative(val) == (size - 1) \in val

\* `val as u8`, `(val & 0xff) as u8`: the low eight bits
AsU8(val) == ByteOfBits({i \in val : i < 8})
\* `byte as u64`, `byte as i64`: zero extension
OfU8(b) == BitsOfByte(b)
\* val << n on a 64-bit word, 0 <= n < 64: bits shifted past bit 63 are lost
Shl(val, n) == {i + n : i \in {j \in val : j + n < size}}
\* val >> n on u64 (logical)
Shr(val, n) == {i - n : i \in {j \in val : j >= n}}
\* val >> n on i64 (arithmetic: the sign bit is replicated)
Sar(val, n) ==
    Shr(val, n) \cup (IF IsNegative(val) THEN (size - n)..(size - 1) ELSE {})

(***************************************************************************)
(* lib.rs: the shared low-bits helpers.                                    *)
(***************************************************************************)
low_bits_of_byte(byte) == And8(byte, Not8(CONTINUATION_BIT))

low_bits_of_u64(val) == low_bits_of_byte(AsU8(val))

(***************************************************************************)
(* write.rs: the writers, over a bytes::BufMut sink.  A sink is the        *)
(* sequence of bytes put so far and its capacity; remaining_mut is what is *)
(* left.  A write returns Ok(bytes_written); the code has no path that     *)
(* returns Err.  BufMut::put_u8 panics when remaining_mut() < 1.           *)
(***************************************************************************)
WOk(n) == [kind |-> "Ok", n |-> n]
WPanic == [kind |-> "Panic"]
WErr(e) == [kind |-> "Err", error |-> e]

remaining_mut(sink, cap) == cap - Len(sink)

put_u8(sink, cap, byte) ==
    IF remaining_mut(sink, cap) >= 1
    THEN [ok |-> TRUE, sink |-> Append(sink, byte)]
    ELSE [ok |-> FALSE, sink |-> sink]

\* val >>= 7 on the u64 still to be written
next_unsigned_by_eight(val) == Shr(val, 8)

next_unsigned(val) == Shr(val, 7)

RECURSIVE write_unsigned_loop(_, _, _, _)
write_unsigned_loop(sink, cap, val, bytes_written) ==
    LET byte0 == low_bits_of_u64(val)
        val1 == next_unsigned(val)
        byte == IF val1 # Zero THEN Or8(byte0, CONTINUATION_BIT) ELSE byte0
        put == put_u8(sink, cap, byte)
    IN  IF ~put.ok THEN [sink |-> put.sink, ret |-> WPanic]
        ELSE IF val1 = Zero
             THEN [sink |-> put.sink, ret |-> WOk(bytes_written + 1)]
             ELSE write_unsigned_loop(put.sink, cap, val1, bytes_written + 1)

write_unsigned(sink, cap, val) == write_unsigned_loop(sink, cap, val, 0)

\* val >>= 6: the first shift of write_signed keeps the group's sign bit
signed_keep_shift_seven(val) == Sar(val, 7)

signed_keep_shift(val) == Sar(val, 6)

\* val >>= 1: the second shift of write_signed removes the sign bit
signed_drop_shift_logical(val) == Shr(val, 1)

signed_drop_shift(val) == Sar(val, 1)

RECURSIVE write_signed_loop(_, _, _, _)
write_signed_loop(sink, cap, val, bytes_written) ==
    LET byte0 == AsU8(val)
        val1 == signed_keep_shift(val)
        done == val1 = Zero \/ val1 = AllOnes
        byte == IF done THEN And8(byte0, Not8(CONTINUATION_BIT))
                        ELSE Or8(byte0, CONTINUATION_BIT)
        val2 == IF done THEN val1 ELSE signed_drop_shift(val1)
        put == put_u8(sink, cap, byte)
    IN  IF ~put.ok THEN [sink |-> put.sink, ret |-> WPanic]
        ELSE IF done
             THEN [sink |-> put.sink, ret |-> WOk(bytes_written + 1)]
             ELSE write_signed_loop(put.sink, cap, val2, bytes_written + 1)

write_signed(sink, cap, val) == write_signed_loop(sink, cap, val, 0)

(***************************************************************************)
(* read.rs: the readers.  A source is a byte sequence and the number of    *)
(* bytes already consumed from it.  A read returns Ok(result) or           *)
(* Err(Error::Overflow) or Err(Error::IoError(..)): the returned value     *)
(* (field res) carries nothing else.  Beside it the model records where    *)
(* the cursor is left (pos) and the largest shift amount the call applied  *)
(* to a payload (shift, -1 when it applied none).                          *)
(***************************************************************************)
ROk(v) == [kind |-> "Ok", value |-> v]
RErr(e) == [kind |-> "Err", error |-> e]
RPanic == [kind |-> "Panic"]
\* `low_bits << shift` with shift >= 64: a panic in a debug build and a
\* masked shift in a release build; the model stops the read there
RShift == [kind |-> "ShiftOverflow"]

\* <&[u8] as io::Read>::read_exact on a one-byte buffer
read_exact(src, pos) ==
    IF pos < Len(src)
    THEN [kind |-> "Byte", byte |-> src[pos + 1], pos |-> pos + 1]
    ELSE [kind |-> "Eof", pos |-> pos]

\* bytes::Buf::get_u8: panics when no byte remains
get_u8(src, pos) ==
    IF pos < Len(src)
    THEN [kind |-> "Byte", byte |-> src[pos + 1], pos |-> pos + 1]
    ELSE [kind |-> "Panic", pos |-> pos]

\* the outcome of a fetch that produced no byte
NoByte(got, shift) ==
    [res |-> IF got.kind = "Eof" THEN RErr("UnexpectedEof") ELSE RPanic,
     pos |-> got.pos, shift |-> IF shift = 0 THEN -1 ELSE shift - 7]

\* if shift == 63 && byte != 0x00 && byte != 0x01: the whole byte is compared
unsigned_overflow_by_payload(shift, byte) ==
    shift = 63 /\ low_bits_of_byte(byte) # 0 /\ low_bits_of_byte(byte) # 1

unsigned_overflow(shift, byte) == shift = 63 /\ byte # 0 /\ byte # 1

\* if shift == 63 && byte != 0x00 && byte != 0x7f
signed_overflow_as_unsigned(shift, byte) == shift = 63 /\ byte # 0 /\ byte # 1

signed_overflow_lax(shift, byte) == FALSE

signed_overflow(shift, byte) == shift = 63 /\ byte # 0 /\ byte # 127

\* byte & CONTINUATION_BIT == 0: the byte ends the number
is_last_by_sign(byte) == And8(byte, SIGN_BIT) = 0

is_last(byte) == And8(byte, CONTINUATION_BIT) = 0

\* result |= low_bits << shift
accumulate_unshifted(result, byte, shift) ==
    result \cup OfU8(low_bits_of_byte(byte))

accumulate(result, byte, shift) ==
    result \cup Shl(OfU8(low_bits_of_byte(byte)), shift)

\* if shift < size && (SIGN_BIT & byte) == SIGN_BIT { result |= !0 << shift }
sign_extend_never(result, byte, shift) == result

sign_extend(result, byte, shift) ==
    IF shift < size /\ And8(SIGN_BIT, byte) = SIGN_BIT
    THEN result \cup Shl(AllOnes, shift)
    ELSE result

\* one pass of the loop of read_unsigned once the byte is there
unsigned_step(got, result, shift) ==
    IF unsigned_overflow(shift, got.byte)
    THEN [done |-> TRUE, res |-> RErr("Overflow"),
          shift |-> IF shift = 0 THEN -1 ELSE shift - 7]
    ELSE IF shift >= size
    THEN [done |-> TRUE, res |-> RShift, shift |-> shift]
    ELSE IF is_last(got.byte)
    THEN [done |-> TRUE, res |-> ROk(accumulate(result, got.byte, shift)),
          shift |-> shift]
    ELSE [done |-> FALSE, result |-> accumulate(result, got.byte, shift)]

\* one pass of the loop of read_signed once the byte is there, with the
\* sign extension that follows the loop
signed_step(got, result, shift) ==
    IF signed_overflow(shift, got.byte)
    THEN [done |-> TRUE, res |-> RErr("Overflow"),
          shift |-> IF shift = 0 THEN -1 ELSE shift - 7]
    ELSE IF shift >= size
    THEN [done |-> TRUE, res |-> RShift, shift |-> shift]
    ELSE IF is_last(got.byte)
    THEN [done |-> TRUE,
          res |-> ROk(sign_extend(accumulate(result, got.byte, shift),
                                  got.byte, shift + 7)),
          shift |-> shift]
    ELSE [done |-> FALSE, result |-> accumulate(result, got.byte, shift)]

\* impl<R: io::Read> LEB128Read for R  (feature "std")
RECURSIVE read_unsigned_io(_, _, _, _)
read_unsigned_io(src, pos, result, shift) ==
    LET got == read_exact(src, pos) IN
    IF got.kind # "Byte" THEN NoByte(got, shift)
    ELSE LET step == unsigned_step(got, result, shift) IN
         IF step.done
         THEN [res |-> step.res, pos |-> got.pos, shift |-> step.shift]
         ELSE read_unsigned_io(src, got.pos, step.result, shift + 7)

RECURSIVE read_signed_io(_, _, _, _)
read_signed_io(src, pos, result, shift) ==
    LET got == read_exact(src, pos) IN
    IF got.kind # "Byte" THEN NoByte(got, shift)
    ELSE LET step == signed_step(got, result, shift) IN
         IF step.done
         THEN [res |-> step.res, pos |-> got.pos, shift |-> step.shift]
         ELSE read_signed_io(src, got.pos, step.result, shift + 7)

\* impl<R: Buf> LEB128Read for R  (feature "use-bytes")
RECURSIVE read_unsigned_buf(_, _, _, _)
read_unsigned_buf(src, pos, result, shift) ==
    LET got == get_u8(src, pos) IN
    IF got.kind # "Byte" THEN NoByte(got, shift)
    ELSE LET step == unsigned_step(got, result, shift) IN
         IF step.done
         THEN [res |-> step.res, pos |-> got.pos, shift |-> step.shift]
         ELSE read_unsigned_buf(src, got.pos, step.result, shift + 7)

RECURSIVE read_signed_buf(_, _, _, _)
read_signed_buf(src, pos, result, shift) ==
    LET got == get_u8(src, pos) IN
    IF got.kind # "Byte" THEN NoByte(got, shift)
    ELSE LET step == signed_step(got, result, shift) IN
         IF step.done
         THEN [res |-> step.res, pos |-> got.pos, shift |-> step.shift]
         ELSE read_signed_buf(src, got.pos, step.result, shift + 7)

Features == {"std", "use-bytes"}

\* the LEB128Read trait, implemented by the one impl the build's feature selects
read_unsigned(feature, src, pos) ==
    IF feature = "std" THEN read_unsigned_io(src, pos, Zero, 0)
                       ELSE read_unsigned_buf(src, pos, Zero, 0)

read_signed(feature, src, pos) ==
    IF feature = "std" THEN read_signed_io(src, pos, Zero, 0)
                       ELSE read_signed_buf(src, pos, Zero, 0)

(***************************************************************************)
(* The inputs.                                                             *)
(***************************************************************************)
\* the 64-bit word of a small natural number, and of its negation
FromNat(n) == {i \in 0..30 : (n \div (2^i)) % 2 = 1}
NegNat(n) == AllOnes \ FromNat(n - 1)

\* the values of the DWARF figures the tests use (lib.rs:103-177)
KnownValues ==
    {FromNat(n) : n \in {2, 127, 128, 129, 130, 12857}}
    \cup {NegNat(n) : n \in {2, 127, 128, 129}}

\* values written one after another: encodings of 1, 2 and 10 bytes
StreamValues == {Zero, FromNat(127), FromNat(130), AllOnes, {size - 1}}

\* every top bit p, every pattern of the MaxWin bits below it, the bits below
\* those all clear or all set; these words and their complements
WindowOf(p) == {q \in BitPos : q < p /\ q >= p - MaxWin}
BelowWindow(p) == {q \in BitPos : q < p - MaxWin}

WindowValues ==
    UNION {{({p} \cup w) \cup fill :
                w \in SUBSET WindowOf(p), fill \in {{}, BelowWindow(p)}} :
           p \in BitPos}

WideValues ==
    LET base == WindowValues \cup {Zero} \cup KnownValues
    IN  base \cup {AllOnes \ v : v \in base}

\* sink capacities: too small for some encodings, or roomy
Caps == (0..MaxCap) \cup {BufLen}

\* hand-made sources: two runs of continuation bytes, MaxRun bytes at most,
\* then nothing, a terminating byte, or a terminating byte and the byte 0x01
\* of a second value (lib.rs:348)
ContBytes == {128, 129, 255}
TermBytes == {0, 1, 2, 64, 126, 127}

Run(b, n) == [i \in 1..n |-> b]

Heads ==
    {Run(x1, j1) \o Run(x2, j2) :
        x1 \in ContBytes, x2 \in ContBytes, j1 \in 0..MaxRun, j2 \in 0..MaxRun}

Tails == {<<>>} \cup {<<t>> : t \in TermBytes} \cup {<<t, 1>> : t \in TermBytes}

RawSources == {h \o t : h \in {g \in Heads : Len(g) <= MaxRun}, t \in Tails}

(***************************************************************************)
(* The state: one sink being written, then one source being read.          *)
(***************************************************************************)
VARIABLES
    feature,    \* the reader impl the build selects: "std" or "use-bytes"
    cap,        \* the sink's capacity
    sink,       \* the bytes put into the sink
    wlog,       \* the write calls made: [signed, val, ret, from, to]
    phase,      \* "writing", "reading", "panicked"
    origin,     \* where the source came from: "none", "sink", "raw"
    src,        \* the source's bytes
    pos,        \* the number of bytes consumed from the source
    rlog        \* the read calls made: [signed, res, from, to, shift]

vars == <<feature, cap, sink, wlog, phase, origin, src, pos, rlog>>

Init ==
    /\ feature \in Features
    /\ cap \in Caps
    /\ sink = <<>>
    /\ wlog = <<>>
    /\ phase = "writing"
    /\ origin = "none"
    /\ src = <<>>
    /\ pos = 0
    /\ rlog = <<>>

\* a call of write_unsigned / write_signed on the sink, with a value of
\* `values`, while fewer than `max` calls were made
Write(signed, values, max) ==
    /\ phase = "writing"
    /\ Len(wlog) < max
    /\ \E val \in values :
         LET w == IF signed THEN write_signed(sink, cap, val)
                            ELSE write_unsigned(sink, cap, val)
         IN  /\ sink' = w.sink
             /\ wlog' = Append(wlog, [signed |-> signed, val |-> val,
                                      ret |-> w.ret,
                                      from |-> Len(sink), to |-> Len(w.sink)])
             /\ phase' = IF w.ret.kind = "Panic" THEN "panicked" ELSE phase
    /\ UNCHANGED <<feature, cap, origin, src, pos, rlog>>

WriteUnsigned(values, max) == Write(FALSE, values, max)

WriteSigned(values, max) == Write(TRUE, values, max)

\* the written bytes become the source (tests_bytes.rs:124 writable.freeze())
Freeze ==
    /\ phase = "writing"
    /\ wlog # <<>>
    /\ src' = sink
    /\ pos' = 0
    /\ origin' = "sink"
    /\ phase' = "reading"
    /\ UNCHANGED <<feature, cap, sink, wlog, rlog>>

\* the caller makes a source of bytes of its own (lib.rs:106 &buf[..])
Load(sources) ==
    /\ phase = "writing"
    /\ wlog = <<>>
    /\ \E bytes \in sources : src' = bytes
    /\ pos' = 0
    /\ origin' = "raw"
    /\ phase' = "reading"
    /\ UNCHANGED <<feature, cap, sink, wlog, rlog>>

\* a call of read_unsigned / read_signed on the source; the caller goes on
\* reading while its reads succeed
Read(signed) ==
    /\ phase = "reading"
    /\ \A i \in 1..Len(rlog) : rlog[i].res.kind = "Ok"
    /\ LET r == IF signed THEN read_signed(feature, src, pos)
                          ELSE read_unsigned(feature, src, pos)
       IN  /\ pos' = r.pos
           /\ rlog' = Append(rlog, [signed |-> signed, res |-> r.res,
                                    from |-> pos, to |-> r.pos, shift |-> r.shift])
           /\ phase' = IF r.res.kind \in {"Panic", "ShiftOverflow"}
                       THEN "panicked" ELSE phase
    /\ UNCHANGED <<feature, cap, sink, wlog, origin, src>>

ReadUnsigned == Read(FALSE)

ReadSigned == Read(TRUE)

\* up to MaxStream values into one sink, then read back
Next ==
    \/ WriteUnsigned(StreamValues, MaxStream)
    \/ WriteSigned(StreamValues, MaxStream)
    \/ Freeze
    \/ ReadUnsigned
    \/ ReadSigned

Spec == Init /\ [][Next]_vars

\* one value of the wide set into an empty sink, then read back
NextWide ==
    \/ WriteUnsigned(WideValues, 1)
    \/ WriteSigned(WideValues, 1)
    \/ Freeze
    \/ ReadUnsigned
    \/ ReadSigned

SpecWide == Init /\ [][NextWide]_vars

\* the readers on hand-made sources
InitDecode == Init /\ cap = BufLen

NextDecode ==
    \/ Load(RawSources)
    \/ ReadUnsigned
    \/ ReadSigned

SpecDecode == InitDecode /\ [][NextDecode]_vars

(***************************************************************************)
(* The claims.                                                             *)
(***************************************************************************)
\* the first read of a source that holds the bytes of exactly one write
\* into an empty sink, reader and writer of the same signedness
RoundTrip(signed) ==
    /\ origin = "sink"
    /\ Len(wlog) = 1
    /\ wlog[1].signed = signed
    /\ wlog[1].from = 0
    /\ rlog # <<>>
    /\ rlog[1].signed = signed

\* C1: read_unsigned on the bytes write_unsigned(v) appended to an empty
\* sink succeeds and returns exactly v, for every u64 v (0 and 2^64-1 too).
C1_UnsignedRoundTrip ==
    RoundTrip(FALSE) => rlog[1].res = ROk(wlog[1].val)

\* u64::MAX, ten bytes long, has been written and read back
C1_Witness ==
    /\ RoundTrip(FALSE)
    /\ wlog[1].val = AllOnes
    /\ wlog[1].ret = WOk(10)
    /\ rlog[1].res.kind = "Ok"

\* C2: read_signed on the bytes write_signed(v) appended to an empty sink
\* succeeds and returns exactly v, for every i64 v (0, -1, MIN and MAX too).
C2_SignedRoundTrip ==
    RoundTrip(TRUE) => rlog[1].res = ROk(wlog[1].val)

\* i64::MIN, ten bytes long, has been written and read back
C2_Witness ==
    /\ RoundTrip(TRUE)
    /\ wlog[1].val = {size - 1}
    /\ wlog[1].ret = WOk(10)
    /\ rlog[1].res.kind = "Ok"

\* C3: a decoder returns, with the decoded value, the number of bytes it
\* consumed, and for the matching encoder's bytes that number is the count
\* the encoder returned: decode(encode(v)) = (v, encoded_length).
C3_DecodeReportsLength ==
    \A signed \in BOOLEAN :
        RoundTrip(signed) =>
            rlog[1].res = [kind |-> "Ok", value |-> wlog[1].val,
                           consumed |-> wlog[1].ret.n]

\* a write call that returned Ok, and the bytes it appended
OkWrites(signed) ==
    {i \in 1..Len(wlog) : wlog[i].signed = signed /\ wlog[i].ret.kind = "Ok"}
Appended(i) == SubSeq(sink, wlog[i].from + 1, wlog[i].to)

\* v < 2^(7n) for the u64 v
FitsUnsigned(v, n) == \A k \in v : k < 7 * n
\* -2^(7n-1) <= v < 2^(7n-1) for the i64 v: every bit from 7n-1 up is the sign
FitsSigned(v, n) ==
    \A k \in BitPos : k >= 7 * n - 1 => ((k \in v) <=> IsNegative(v))

\* C4: write_unsigned(v) appends and returns exactly n bytes, n the smallest
\* n >= 1 with v < 2^(7n); write_signed(v) appends and returns exactly n
\* bytes, n the smallest n >= 1 with -2^(7n-1) <= v < 2^(7n-1); 1 <= n <= 10
\* and the returned count is the number of bytes appended.
C4_Minimality ==
    /\ \A i \in OkWrites(FALSE) :
         LET n == wlog[i].ret.n IN
         /\ n = wlog[i].to - wlog[i].from
         /\ n \in 1..10
         /\ FitsUnsigned(wlog[i].val, n)
         /\ n > 1 => ~FitsUnsigned(wlog[i].val, n - 1)
    /\ \A i \in OkWrites(TRUE) :
         LET n == wlog[i].ret.n IN
         /\ n = wlog[i].to - wlog[i].from
         /\ n \in 1..10
         /\ FitsSigned(wlog[i].val, n)
         /\ n > 1 => ~FitsSigned(wlog[i].val, n - 1)

\* write_signed(2^62) returned 10: bit 62 is not the sign, so 9 bytes (63
\* bits, sign included) are one too few
C4_Witness ==
    /\ wlog # <<>>
    /\ wlog[1].signed
    /\ wlog[1].val = {size - 2}
    /\ wlog[1].ret = WOk(10)

\* the low seven bits of a byte, as bit positions 0..6
Payload7(b) == BitsOfByte(b) \cap (0..6)
HasBit(b, k) == k \in BitsOfByte(b)

\* C5: write_unsigned appends b_0..b_(n-1) with the low 7 bits of b_i equal
\* to bits 7i..7i+6 of v, bit 7 set on every byte but the last and clear on
\* the last; 0 -> [0x00], 128 -> [0x80, 0x01], 12857 -> [0xb9, 0x64].
C5_UnsignedWireFormat ==
    \A i \in OkWrites(FALSE) :
        LET v == wlog[i].val
            b == Appended(i)
        IN  /\ \A k \in 1..Len(b) :
                 /\ Payload7(b[k]) = {j \in 0..6 : 7 * (k - 1) + j \in v}
                 /\ HasBit(b[k], 7) <=> k < Len(b)
            /\ b # <<>>
            /\ v = Zero => b = <<0>>
            /\ v = FromNat(128) => b = <<128, 1>>
            /\ v = FromNat(12857) => b = <<185, 100>>

\* write_unsigned(12857) has appended its bytes
C5_Witness ==
    /\ wlog # <<>>
    /\ ~wlog[1].signed
    /\ wlog[1].val = FromNat(12857)
    /\ wlog[1].ret = WOk(2)

\* bit k of the sign-extended two's-complement value of the i64 v
SignExtBit(v, k) == IF k < size THEN k \in v ELSE IsNegative(v)

\* C6: write_signed appends bytes whose low 7 bits are the successive 7-bit
\* groups of the sign-extended value, bit 7 set on every byte but the last,
\* bit 6 of the last byte set iff v < 0, so that every bit of v beyond the
\* encoded length equals that bit; 127 -> [0xff, 0x00], -128 -> [0x80, 0x7f].
C6_SignedWireFormat ==
    \A i \in OkWrites(TRUE) :
        LET v == wlog[i].val
            b == Appended(i)
        IN  /\ \A k \in 1..Len(b) :
                 /\ Payload7(b[k]) = {j \in 0..6 : SignExtBit(v, 7 * (k - 1) + j)}
                 /\ HasBit(b[k], 7) <=> k < Len(b)
            /\ b # <<>>
            /\ HasBit(b[Len(b)], 6) <=> IsNegative(v)
            /\ \A k \in BitPos : k >= 7 * Len(b) => ((k \in v) <=> IsNegative(v))
            /\ v = FromNat(127) => b = <<255, 0>>
            /\ v = NegNat(128) => b = <<128, 127>>

\* write_signed(-128) has appended its bytes
C6_Witness ==
    /\ wlog # <<>>
    /\ wlog[1].signed
    /\ wlog[1].val = NegNat(128)
    /\ wlog[1].ret = WOk(2)

\* the bytes a read call consumed
Consumed(i) == SubSeq(src, rlog[i].from + 1, rlog[i].to)
OkReads(signed) ==
    {i \in 1..Len(rlog) : rlog[i].signed = signed /\ rlog[i].res.kind = "Ok"}

\* the untruncated sum of (b_i & 0x7f) * 2^(7i), as the set of its one-bits
PayloadSum(b) ==
    UNION {{7 * (k - 1) + j : j \in Payload7(b[k])} : k \in 1..Len(b)}

\* integers of any size compared bit by bit in two's complement, up to a bit
\* position beyond every bit of either
TopBit(b) == 7 * Len(b) + size
\* the i64 v
IntOfSigned(v, top) == v \cup (IF IsNegative(v) THEN size..top ELSE {})
\* sum - 2^(7k), for a sum below 2^(7k)
SumMinusPower(b, top) == PayloadSum(b) \cup ((7 * Len(b))..top)

\* C7: whenever a decoder returns Ok after consuming b_0..b_(k-1),
\* read_unsigned's result is the untruncated sum of (b_i & 0x7f) * 2^(7i) and
\* read_signed's result is that sum minus 2^(7k) when bit 6 of b_(k-1) is
\* set and the plain sum otherwise: no payload bit is dropped.  Eight 0x80
\* bytes and then 0x40 decode as -2^62.
C7_DecodedValueExact ==
    /\ \A i \in OkReads(FALSE) : rlog[i].res.value = PayloadSum(Consumed(i))
    /\ \A i \in OkReads(TRUE) :
         LET b == Consumed(i)
             top == TopBit(b)
         IN  /\ b # <<>>
             /\ IntOfSigned(rlog[i].res.value, top) =
                  IF HasBit(b[Len(b)], 6) THEN SumMinusPower(b, top)
                                          ELSE PayloadSum(b)
    /\ \A i \in OkReads(TRUE) :
         Consumed(i) = Run(128, 8) \o <<64>> =>
             rlog[i].res.value = {size - 2, size - 1}

\* read_signed has decoded eight 0x80 bytes and 0x40
C7_Witness ==
    /\ origin = "raw"
    /\ rlog # <<>>
    /\ rlog[1].signed
    /\ rlog[1].res.kind = "Ok"
    /\ Consumed(1) = Run(128, 8) \o <<64>>

\* the source runs out before a byte without the continuation bit: the
\* bytes left when the call starts are fewer than 10 and all have bit 7 set
Truncated(i) ==
    /\ Len(src) - rlog[i].from < 10
    /\ \A k \in (rlog[i].from + 1)..Len(src) : HasBit(src[k], 7)

\* C8: on a source that runs out before a byte without the continuation bit
\* has been read, read_unsigned and read_signed return
\* Error::IoError(UnexpectedEof): not Overflow, not a value, not a panic.
C8_TruncatedInputIsEof ==
    \A i \in 1..Len(rlog) :
        Truncated(i) => rlog[i].res = RErr("UnexpectedEof")

\* the number of bytes the encoding of v takes
EncodedLen(signed, v) ==
    CHOOSE n \in 1..10 :
        /\ IF signed THEN FitsSigned(v, n) ELSE FitsUnsigned(v, n)
        /\ n > 1 => ~(IF signed THEN FitsSigned(v, n - 1)
                                ELSE FitsUnsigned(v, n - 1))

\* C9: when the sink can accept fewer bytes than the encoding needs,
\* write_unsigned and write_signed return an I/O error of kind WriteZero, as
\* a value, and the bytes the sink accepted before the failure stay in it.
C9_WriteZeroOnFullSink ==
    \A i \in 1..Len(wlog) :
        cap - wlog[i].from < EncodedLen(wlog[i].signed, wlog[i].val) =>
            /\ wlog[i].ret = WErr("WriteZero")
            /\ wlog[i].to = cap
            /\ Len(sink) >= wlog[i].to

\* the first k reads match the first k writes in signedness
Matching(k) ==
    /\ k <= Len(rlog)
    /\ k <= Len(wlog)
    /\ \A i \in 1..k : rlog[i].signed = wlog[i].signed

\* C10: m successive decode calls of the matching signedness on the stream
\* of v_1..v_m return v_1..v_m in order, each consuming exactly the bytes of
\* its own value, and the source is empty after the m-th.
C10_SequentialDecode ==
    origin = "sink" =>
        \A k \in 1..Len(rlog) :
            Matching(k) =>
                /\ rlog[k].res = ROk(wlog[k].val)
                /\ rlog[k].from = wlog[k].from
                /\ rlog[k].to = wlog[k].to
                /\ rlog[k].to - rlog[k].from = wlog[k].ret.n
                /\ k = Len(wlog) => (rlog[k].to = Len(src) /\ pos = Len(src))

\* two values of different lengths and signedness were written one after
\* the other and both have been read back
C10_Witness ==
    /\ origin = "sink"
    /\ Len(wlog) = 2
    /\ Matching(2)
    /\ wlog[1].signed /\ ~wlog[2].signed
    /\ wlog[1].ret.n = 10 /\ wlog[2].ret.n = 2
    /\ rlog[2].res.kind = "Ok"

\* read call i meets a 10th byte: the nine bytes before it are there and all
\* have the continuation bit, so the byte is fetched with shift = 63
ReachesTenth(i) ==
    /\ rlog[i].from + 10 <= Len(src)
    /\ \A k \in 1..9 : HasBit(src[rlog[i].from + k], 7)
Tenth(i) == src[rlog[i].from + 10]
UnsignedAtTenth == {i \in 1..Len(rlog) : ~rlog[i].signed /\ ReachesTenth(i)}
SignedAtTenth == {i \in 1..Len(rlog) : rlog[i].signed /\ ReachesTenth(i)}

\* C11, as stated: at the 10th byte read_unsigned returns Error::Overflow
\* exactly when the byte's low 7-bit payload is other than 0x00 or 0x01; a
\* 10th byte whose payload is 0x00 or 0x01 is not reported as overflow.
C11_OverflowByPayload ==
    \A i \in UnsignedAtTenth :
        rlog[i].res = RErr("Overflow")
            <=> low_bits_of_byte(Tenth(i)) \notin {0, 1}

\* C11, amended: at the 10th byte read_unsigned returns Error::Overflow
\* exactly when the byte, its continuation bit included, is other than 0x00
\* or 0x01 (so 0x80 and 0x81 are overflow); on 0x00 or 0x01 it returns Ok
\* having consumed the ten bytes.
C11_OverflowByWholeByte ==
    \A i \in UnsignedAtTenth :
        /\ rlog[i].res = RErr("Overflow") <=> Tenth(i) \notin {0, 1}
        /\ Tenth(i) \in {0, 1} =>
             (rlog[i].res.kind = "Ok" /\ rlog[i].to = rlog[i].from + 10)
        /\ rlog[i].res = RErr("Overflow") => rlog[i].to = rlog[i].from + 10

\* read_unsigned has met the 10th byte 0x81, payload 1, and returned Overflow
C11_Witness ==
    \E i \in UnsignedAtTenth :
        Tenth(i) = 129 /\ rlog[i].res = RErr("Overflow")

\* C12: when read_signed reads a terminating 10th byte (shift is 63) it
\* succeeds exactly when the byte's low 7-bit payload is 0x00 or 0x7f and
\* returns Error::Overflow for every other payload; any stream of more than
\* 10 continuation-bit bytes carrying non-zero payload yields an error.
C12_SignedOverflowPolicy ==
    \A i \in SignedAtTenth :
        /\ ~HasBit(Tenth(i), 7) =>
             /\ rlog[i].res.kind = "Ok"
                    <=> low_bits_of_byte(Tenth(i)) \in {0, 127}
             /\ rlog[i].res.kind # "Ok" => rlog[i].res = RErr("Overflow")
        /\ ( /\ rlog[i].from + 11 <= Len(src)
             /\ \A k \in 1..11 : HasBit(src[rlog[i].from + k], 7)
             /\ \E k \in 1..11 : low_bits_of_byte(src[rlog[i].from + k]) # 0 )
           => rlog[i].res.kind = "Err"

\* read_signed has met the terminating 10th byte 0x7f and returned Ok
C12_Witness ==
    \E i \in SignedAtTenth :
        Tenth(i) = 127 /\ rlog[i].res.kind = "Ok"

\* read_signed has met eleven 0xff bytes and returned Overflow at the 10th
C12_LongRunSeen ==
    \E i \in SignedAtTenth :
        /\ rlog[i].from + 11 <= Len(src)
        /\ \A k \in 1..11 : src[rlog[i].from + k] = 255
        /\ rlog[i].res = RErr("Overflow")

\* the shift amounts 0, 7, ..., 63
Shifts == {7 * k : k \in 0..9}

\* a read call consumed at most 10 bytes and shifted no payload by 64 or more
Bounded(i) ==
    /\ rlog[i].to - rlog[i].from <= 10
    /\ rlog[i].shift = -1 \/ rlog[i].shift \in Shifts

\* C13: on every byte source, a run of continuation bytes of any length
\* included, each call of read_unsigned or read_signed returns Ok or Err
\* after consuming at most 10 bytes, and the shift applied to a payload is
\* one of 0, 7, ..., 63, never 64 or more.
C13_BoundedDecode ==
    \A i \in 1..Len(rlog) :
        /\ rlog[i].res.kind \in {"Ok", "Err"}
        /\ Bounded(i)

\* what holds of C13 whatever the call's outcome: the bounds on the bytes
\* consumed and on the shift; a call that does not return is a panic of
\* get_u8 on a source that ran out (the case of C8)
C13_BoundsHold ==
    \A i \in 1..Len(rlog) :
        /\ Bounded(i)
        /\ rlog[i].res.kind \notin {"Ok", "Err"} =>
             (rlog[i].res = RPanic /\ feature = "use-bytes" /\ Truncated(i))

====
